---- MODULE Spec2Model ----
(***************************************************************************)
(* Model of the bounding-box consolidation code of the repository:         *)
(*   - miscellaneous/clean_overlapping_bboxes.py  (one merging pass)       *)
(*   - miscellaneous/make_a_gif_for_coordinates.py (the loop of passes)    *)
(*   - tests/Test5.py (the IoU variant with remove_smaller / merge)        *)
(* Footprints are axis-aligned rectangles with integer corners, which is   *)
(* what box(g.bounds) and union(...).envelope produce.  Areas, the         *)
(* intersection area and the ratios are computed exactly; a threshold is a *)
(* rational <<num, den>>.                                                  *)
(***************************************************************************)
EXTENDS Integers, Sequences, FiniteSets, TLC

VARIABLES gdf, threshold, what_to_do_on_overlap, max_cleaning_iterations,
          i, frames, trace, last, pc

vars == <<gdf, threshold, what_to_do_on_overlap, max_cleaning_iterations,
          i, frames, trace, last, pc>>

(***************************************************************************)
(* Bounds of the model.                                                    *)
(***************************************************************************)
\* largest number of footprints in a GeoDataFrame handed to a pass
MaxLen == 3
\* largest number of successive calls of the pass a caller makes
MaxCalls == 2
\* largest value of max_cleaning_iterations
MaxIter == 3
\* grid lines the corners of the input footprints lie on
Coords == 0 .. 2

(***************************************************************************)
(* Geometry capability (shapely), on rectangles.                           *)
(***************************************************************************)
Min(a, b) == IF a <= b THEN a ELSE b
Max(a, b) == IF a >= b THEN a ELSE b

\* shapely.geometry.box(minx, miny, maxx, maxy): a Polygon
box(x1, y1, x2, y2) ==
    [kind |-> "Polygon", minx |-> x1, miny |-> y1, maxx |-> x2, maxy |-> y2]

\* geom.area
Area(g) == (g.maxx - g.minx) * (g.maxy - g.miny)

\* geom_a.intersection(geom_b).area
InterArea(a, b) ==
    Max(0, Min(a.maxx, b.maxx) - Max(a.minx, b.minx))
        * Max(0, Min(a.maxy, b.maxy) - Max(a.miny, b.miny))

\* geom_a.union(geom_b).envelope : the bounding rectangle, a Polygon
UnionEnvelope_intersection(a, b) ==
    box(Max(a.minx, b.minx), Max(a.miny, b.miny),
        Max(Max(a.minx, b.minx), Min(a.maxx, b.maxx)),
        Max(Max(a.miny, b.miny), Min(a.maxy, b.maxy)))

UnionEnvelope(a, b) ==
    box(Min(a.minx, b.minx), Min(a.miny, b.miny),
        Max(a.maxx, b.maxx), Max(a.maxy, b.maxy))

\* isinstance(geom, (Polygon, MultiPolygon))
IsPolygonal(g) == g.kind \in {"Polygon", "MultiPolygon"}

\* x / y > threshold for y > 0, threshold = <<num, den>> with den > 0
RatioExceeds(x, y, thr) == x * thr[2] > thr[1] * y

(***************************************************************************)
(* Inputs.                                                                 *)
(***************************************************************************)
\* rectangles of positive area
Boxes ==
    {box(x1, y1, x2, y2) : x1 \in Coords, y1 \in Coords, x2 \in Coords, y2 \in Coords}
        \ {b \in {box(x1, y1, x2, y2) : x1 \in Coords, y1 \in Coords,
                                        x2 \in Coords, y2 \in Coords} :
                b.minx >= b.maxx \/ b.miny >= b.maxy}

\* polygons of area 0: a point-like one and a segment-like one
DegenerateBoxes == {box(0, 0, 0, 0), box(0, 1, 2, 1)}

\* a MultiPolygon (here made of one rectangle)
MultiBoxes == {[box(0, 0, 2, 2) EXCEPT !.kind = "MultiPolygon"]}

\* geometries that are neither Polygon nor MultiPolygon; their area is 0
NonPolygons == {[box(1, 1, 1, 1) EXCEPT !.kind = "Point"]}

Footprints == Boxes \cup DegenerateBoxes \cup MultiBoxes \cup NonPolygons

\* the GeoDataFrames of at most n rows over the set S
Frames(S, n) == UNION {[1 .. k -> S] : k \in 0 .. n}

\* thresholds of a pass: the default 0.3, the 0.5 of the script's entry
\* point, 0 and a negative one (the parameter is any float)
Thresholds == {<<3, 10>>, <<1, 2>>, <<0, 1>>, <<-1, 10>>}

\* thresholds of make_a_gif_for_coordinates: the default 0.3 and the 0.5 of
\* the script's entry point
DriverThresholds == {<<3, 10>>, <<1, 2>>}

(***************************************************************************)
(* clean_overlapping_bboxes (miscellaneous/clean_overlapping_bboxes.py)    *)
(***************************************************************************)
\* the validation loop: some geometry is not a Polygon or MultiPolygon
InvalidKind_firstOnly(g) == Len(g) > 0 /\ ~IsPolygonal(g[1])

InvalidKind(g) == \E k \in 1 .. Len(g) : ~IsPolygonal(g[k])

\* the inner loop skips idx_b: not later than idx_a, already merged, or area 0
SkipB_noAreaCheck(g, a, b, merged) == b <= a \/ b \in merged

SkipB_ignoreMerged(g, a, b, merged) == b <= a \/ Area(g[b]) = 0

SkipB(g, a, b, merged) == b <= a \/ b \in merged \/ Area(g[b]) = 0

\* ratio_a > threshold or ratio_b > threshold, both denominators non-zero
Overlaps_nonStrict(ga, gb, inter, thr) ==
    \/ inter * thr[2] >= thr[1] * Area(ga)
    \/ inter * thr[2] >= thr[1] * Area(gb)

Overlaps(ga, gb, inter, thr) ==
    \/ RatioExceeds(inter, Area(ga), thr)
    \/ RatioExceeds(inter, Area(gb), thr)

\* The inner loop from idx_b = b on: the merge target (0 for None), or -1 when
\* a ratio is evaluated with a zero denominator (ZeroDivisionError).
RECURSIVE FindTarget(_, _, _, _, _)
FindTarget(g, a, b, merged, thr) ==
    IF b > Len(g) THEN 0
    ELSE IF SkipB(g, a, b, merged) THEN FindTarget(g, a, b + 1, merged, thr)
    ELSE IF Area(g[a]) = 0 \/ Area(g[b]) = 0 THEN -1
    ELSE IF Overlaps(g[a], g[b], InterArea(g[a], g[b]), thr) THEN b
    ELSE FindTarget(g, a, b + 1, merged, thr)

\* merged_indices after a pair is resolved
MarkPair_none(merged, a, t) == merged

MarkPair(merged, a, t) == merged \cup {a, t}

\* merged_indices after a footprint of area 0 is met as idx_a
MarkDegenerate(merged, a) == merged \cup {a}

\* The outer loop from idx_a = a on.  st holds merged_indices, new_geometries,
\* the resolved pairs <<idx_a, merge_target>> and the error raised, if any.
RECURSIVE Scan(_, _, _, _)
Scan(g, a, st, thr) ==
    IF a > Len(g) \/ st.error # "none" THEN st
    ELSE IF a \in st.merged_indices THEN Scan(g, a + 1, st, thr)
    ELSE IF Area(g[a]) = 0
    THEN Scan(g, a + 1,
              [st EXCEPT !.merged_indices = MarkDegenerate(@, a)], thr)
    ELSE LET t == FindTarget(g, a, 1, st.merged_indices, thr)
         IN  IF t = -1 THEN [st EXCEPT !.error = "ZeroDivisionError"]
             ELSE IF t > 0
             THEN Scan(g, a + 1,
                       [st EXCEPT
                          !.new_geometries = Append(@, UnionEnvelope(g[a], g[t])),
                          !.pairs = Append(@, <<a, t>>),
                          !.merged_indices = MarkPair(@, a, t)], thr)
             ELSE Scan(g, a + 1, st, thr)

\* gdf.loc[~gdf.index.isin(merged_indices)], in index order
Remaining_none(g, k, merged) == <<>>

RECURSIVE Remaining(_, _, _)
Remaining(g, k, merged) ==
    IF k > Len(g) THEN <<>>
    ELSE IF k \in merged THEN Remaining(g, k + 1, merged)
    ELSE <<g[k]>> \o Remaining(g, k + 1, merged)

NoScan == [merged_indices |-> {}, new_geometries |-> <<>>, pairs |-> <<>>,
           error |-> "none"]

\* One call: the error ("none" when the call returns), the locals of the scan
\* and the returned GeoDataFrame (empty when the call raises).
clean_overlapping_bboxes(g, thr) ==
    IF InvalidKind(g)
    THEN [NoScan EXCEPT !.error = "ValueError"] @@ [result |-> <<>>, input |-> g]
    ELSE LET st == Scan(g, 1, NoScan, thr)
         IN  IF st.error # "none"
             THEN st @@ [result |-> <<>>, input |-> g]
             ELSE st @@ [result |-> Remaining(g, 1, st.merged_indices)
                                        \o st.new_geometries,
                         input |-> g]

\* the value of `last` before any call
NoCall == NoScan @@ [result |-> <<>>, input |-> <<>>]

(***************************************************************************)
(* Spec: a caller hands a GeoDataFrame to clean_overlapping_bboxes and     *)
(* calls it again on the result ("call this function repeatedly").         *)
(***************************************************************************)
Init ==
    /\ gdf \in Frames(Footprints, MaxLen)
    /\ threshold \in Thresholds
    /\ what_to_do_on_overlap = "merge"
    /\ max_cleaning_iterations = 0
    /\ i = 0
    /\ frames = <<>>
    /\ trace = <<gdf>>
    /\ last = NoCall
    /\ pc = "ready"

\* gdf = clean_overlapping_bboxes(gdf, threshold)
CallClean ==
    /\ pc = "ready"
    /\ Len(trace) <= MaxCalls
    /\ LET r == clean_overlapping_bboxes(gdf, threshold)
       IN  /\ last' = r
           /\ IF r.error = "none"
              THEN /\ gdf' = r.result
                   /\ trace' = Append(trace, r.result)
                   /\ pc' = "ready"
              ELSE /\ gdf' = gdf
                   /\ trace' = trace
                   /\ pc' = "raised"
    /\ UNCHANGED <<threshold, what_to_do_on_overlap, max_cleaning_iterations,
                   i, frames>>

Next == CallClean

Spec == Init /\ [][Next]_vars

(***************************************************************************)
(* Claims about one pass, checked under Spec.                              *)
(***************************************************************************)
\* the last call returned a GeoDataFrame
Returned == pc = "ready" /\ Len(trace) > 1

\* a call has been made (it returned or it raised)
Attempted == pc = "raised" \/ Len(trace) > 1

\* the footprints of a GeoDataFrame, as a set
Rows(g) == {g[k] : k \in 1 .. Len(g)}

\* C1: one call of clean_overlapping_bboxes returns at most as many
\* footprints as it was given, whatever the input and the threshold.
C1_NeverMoreFootprints ==
    Returned => Len(last.result) <= Len(last.input)

\* a pass over a mix: a resolved pair, a footprint of area 0 and a footprint
\* carried forward
C1_Witness ==
    /\ Returned
    /\ Len(last.input) = 3
    /\ Len(last.pairs) = 1
    /\ \E k \in 1 .. 3 : Area(last.input[k]) = 0

\* C2: a footprint of area 0 is present, unchanged, in the output of a pass.
C2_DegenerateKept ==
    Returned =>
        \A k \in 1 .. Len(last.input) :
            Area(last.input[k]) = 0 => last.input[k] \in Rows(last.result)

\* C3: a pass returns len(input) - k footprints, k the number of pairs it
\* resolved.
C3_OneLessPerPair ==
    Returned => Len(last.result) = Len(last.input) - Len(last.pairs)

\* C6: once a pass returns as many footprints as it was given, the next pass
\* on that output returns that many again.
C6_FixedPointIdempotent ==
    \A j \in 1 .. Len(trace) - 2 :
        Len(trace[j + 1]) = Len(trace[j]) => Len(trace[j + 2]) = Len(trace[j])

\* two passes over at least two footprints, the first one already stable
C6_Witness ==
    /\ Len(trace) >= 3
    /\ Len(trace[1]) >= 2
    /\ Len(trace[2]) = Len(trace[1])
    /\ Len(trace[3]) = Len(trace[1])

\* C7: with a geometry that is neither Polygon nor MultiPolygon anywhere in
\* the input the call raises ValueError before any scan or merge: nothing is
\* marked, nothing is merged, no GeoDataFrame is returned and the caller's
\* GeoDataFrame is as it was.
C7_InvalidKindAborts ==
    (Attempted /\ \E k \in 1 .. Len(trace[1]) : ~IsPolygonal(trace[1][k])) =>
        /\ pc = "raised"
        /\ last.error = "ValueError"
        /\ last.merged_indices = {}
        /\ last.new_geometries = <<>>
        /\ last.result = <<>>
        /\ Len(trace) = 1
        /\ gdf = trace[1]

\* the invalid geometry comes last, after a pair that overlaps
C7_Witness ==
    /\ pc = "raised"
    /\ Len(gdf) = 3
    /\ ~IsPolygonal(gdf[3])
    /\ Area(gdf[1]) > 0
    /\ Area(gdf[2]) > 0
    /\ Overlaps(gdf[1], gdf[2], InterArea(gdf[1], gdf[2]), threshold)

\* C8: on polygons and multi-polygons only, footprints of area 0 included,
\* the call returns; no ratio is ever evaluated with a zero denominator.
C8_NeverRaisesOnPolygons ==
    Attempted =>
        /\ last.error # "ZeroDivisionError"
        /\ (\A k \in 1 .. Len(trace[1]) : IsPolygonal(trace[1][k]))
               => last.error = "none" /\ pc = "ready"

\* a pass that met a polygon of area 0 both as idx_a and as idx_b
C8_Witness ==
    /\ Returned
    /\ Len(last.input) = 3
    /\ Area(last.input[1]) = 0
    /\ Area(last.input[2]) > 0
    /\ Area(last.input[3]) = 0

\* Scenario B on the input S: S[a] (earlier) and S[b] overlap above the
\* threshold, which is not negative, S[c] is disjoint from both, all three
\* of positive area.
ScenarioB(S, thr, a, b, c) ==
    /\ Len(S) = 3
    /\ thr[1] >= 0
    /\ {a, b, c} = {1, 2, 3}
    /\ a < b
    /\ \A k \in 1 .. 3 : IsPolygonal(S[k]) /\ Area(S[k]) > 0
    /\ Overlaps(S[a], S[b], InterArea(S[a], S[b]), thr)
    /\ InterArea(S[c], S[a]) = 0
    /\ InterArea(S[c], S[b]) = 0

\* the envelope of A and B does not overlap C above the threshold
EnvelopeClearOf(S, thr, a, b, c) ==
    LET e == UnionEnvelope(S[a], S[b])
    IN  ~Overlaps(S[c], e, InterArea(S[c], e), thr)

\* what Scenario B promises of the two passes
ScenarioBOutcome(S, a, b, c) ==
    /\ Len(trace) >= 2 =>
           /\ Len(trace[2]) = 2
           /\ Rows(trace[2]) = {S[c], UnionEnvelope(S[a], S[b])}
    /\ Len(trace) >= 3 =>
           /\ Len(trace[3]) = 2
           /\ Rows(trace[3]) = Rows(trace[2])

\* C10 as stated (on footprints of positive area and a threshold that is not
\* negative): whenever A and B overlap
\* above the threshold and C is disjoint from both, one pass yields the
\* envelope of A and B and C, and a second pass yields the same two.
C10_ScenarioB_Original ==
    \A a, b, c \in 1 .. 3 :
        ScenarioB(trace[1], threshold, a, b, c)
            => ScenarioBOutcome(trace[1], a, b, c)

\* C10 amended: the same, provided C does not overlap the envelope of A and B
\* above the threshold either.
C10_ScenarioB_Amended ==
    \A a, b, c \in 1 .. 3 :
        (ScenarioB(trace[1], threshold, a, b, c)
            /\ EnvelopeClearOf(trace[1], threshold, a, b, c))
            => ScenarioBOutcome(trace[1], a, b, c)

\* two passes done on a Scenario B input whose C is clear of the envelope
C10_Witness ==
    /\ Len(trace) = 3
    /\ \E a, b, c \in 1 .. 3 :
           /\ ScenarioB(trace[1], threshold, a, b, c)
           /\ EnvelopeClearOf(trace[1], threshold, a, b, c)

(***************************************************************************)
(* make_a_gif_for_coordinates: the loop of cleaning passes                 *)
(* (miscellaneous/make_a_gif_for_coordinates.py).  The image, the OSM      *)
(* query and the reprojections are outside the model: a frame is the       *)
(* counter text together with the footprints drawn.                        *)
(***************************************************************************)
\* gdf_bbox: box(g.bounds) of each building, a Polygon for every row
BuildingBoxes == Boxes \cup DegenerateBoxes

\* for i in range(max_cleaning_iterations): the loop goes on at index k
LoopContinues_inclusive(k, n) == k <= n

LoopContinues(k, n) == k < n

\* _draw_geometries_on_image(base_image, gdf_bbox_wgs, bbox, counter_text=...)
Frame(label, k, g) ==
    [label |-> label, iter |-> k, n_bboxes |-> Len(g), drawn |-> g]

InitDriver ==
    /\ gdf \in Frames(BuildingBoxes, MaxLen)
    /\ threshold \in DriverThresholds
    /\ what_to_do_on_overlap = "merge"
    /\ max_cleaning_iterations \in 0 .. MaxIter
    /\ i = 0
    /\ frames = <<Frame("Satellite", 0, <<>>)>>
    /\ trace = <<gdf>>
    /\ last = NoCall
    /\ pc = "loop"

\* one iteration of the loop: draw the current state, then one cleaning pass
LoopIteration_drawAfterPass ==
    /\ pc = "loop"
    /\ LoopContinues(i, max_cleaning_iterations)
    /\ LET r == clean_overlapping_bboxes(gdf, threshold)
       IN  /\ last' = r
           /\ IF r.error = "none"
              THEN /\ gdf' = r.result
                   /\ frames' = Append(frames, Frame("Iter", i, r.result))
                   /\ trace' = Append(trace, r.result)
                   /\ i' = i + 1
                   /\ pc' = "loop"
              ELSE /\ gdf' = gdf
                   /\ frames' = frames
                   /\ trace' = trace
                   /\ i' = i
                   /\ pc' = "raised"
    /\ UNCHANGED <<threshold, what_to_do_on_overlap, max_cleaning_iterations>>

LoopIteration ==
    /\ pc = "loop"
    /\ LoopContinues(i, max_cleaning_iterations)
    /\ frames' = Append(frames, Frame("Iter", i, gdf))
    /\ LET r == clean_overlapping_bboxes(gdf, threshold)
       IN  /\ last' = r
           /\ IF r.error = "none"
              THEN /\ gdf' = r.result
                   /\ trace' = Append(trace, r.result)
                   /\ i' = i + 1
                   /\ pc' = "loop"
              ELSE /\ gdf' = gdf
                   /\ trace' = trace
                   /\ i' = i
                   /\ pc' = "raised"
    /\ UNCHANGED <<threshold, what_to_do_on_overlap, max_cleaning_iterations>>

\* the loop is over: the final frame
FinalFrame ==
    /\ pc = "loop"
    /\ ~LoopContinues(i, max_cleaning_iterations)
    /\ frames' = Append(frames, Frame("Final", i, gdf))
    /\ pc' = "save"
    /\ UNCHANGED <<gdf, threshold, what_to_do_on_overlap,
                   max_cleaning_iterations, i, trace, last>>

\* frames[0].save(output_path, ...); return output_path
SaveGif ==
    /\ pc = "save"
    /\ pc' = "done"
    /\ UNCHANGED <<gdf, threshold, what_to_do_on_overlap,
                   max_cleaning_iterations, i, frames, trace, last>>

NextDriver == LoopIteration \/ FinalFrame \/ SaveGif

\* the function runs to completion: single-threaded, synchronous code
SpecDriver == InitDriver /\ [][NextDriver]_vars /\ WF_vars(NextDriver)

\* the passes executed so far
PassCount == Len(trace) - 1

\* the steps the function has left at most: the iterations still to run,
\* the final frame and the save
StepsLeft ==
    IF pc = "loop" THEN (max_cleaning_iterations - i) + 2
    ELSE IF pc = "save" THEN 1
    ELSE 0

\* C4: the loop of make_a_gif_for_coordinates terminates for every input and
\* every max_cleaning_iterations >= 0, and runs the pass at most
\* max_cleaning_iterations times: every step takes the function strictly
\* closer to its end (StepsLeft decreases and is never negative), no pass
\* raises, and the passes executed never exceed max_cleaning_iterations.
C4_LoopTerminates ==
    /\ [](PassCount <= max_cleaning_iterations)
    /\ [](StepsLeft >= 0)
    /\ [](pc \in {"loop", "save", "done"})
    /\ [][StepsLeft' < StepsLeft]_vars

\* the same as a liveness property, under the fairness of SpecDriver
C4_EventuallyDone == <>(pc = "done")

\* a run to the end that used its whole budget of passes
C4_Witness ==
    /\ pc = "done"
    /\ max_cleaning_iterations = MaxIter
    /\ PassCount = MaxIter
    /\ Len(trace[1]) >= 2

\* C5: once a pass returns as many footprints as it was given, no further
\* pass is executed and no further frame of an iteration is produced.
C5_StopsWhenStable ==
    \A j \in 1 .. Len(trace) - 1 :
        Len(trace[j + 1]) = Len(trace[j]) =>
            /\ PassCount = j
            /\ \A f \in 1 .. Len(frames) :
                   frames[f].label = "Iter" => frames[f].iter < j

(***************************************************************************)
(* clean_overlapping_bboxes of tests/Test5.py: the IoU variant, which       *)
(* filters gdf while it iterates over it.  The outer loop runs over the    *)
(* geometries of the GeoDataFrame it was given; each inner loop runs over  *)
(* the geometries gdf holds when that inner loop starts.                   *)
(***************************************************************************)
\* gdf[gdf.geometry != geom]
RECURSIVE Without(_, _)
Without(g, geom) ==
    IF g = <<>> THEN <<>>
    ELSE IF Head(g) = geom THEN Without(Tail(g), geom)
    ELSE <<Head(g)>> \o Without(Tail(g), geom)

\* polygon.union(other).area
UnionArea(a, b) == Area(a) + Area(b) - InterArea(a, b)

\* what an overlap above the threshold does to gdf
Resolve(cur, polygon, other, policy) ==
    IF policy = "remove_smaller"
    THEN IF Area(polygon) >= Area(other)
         THEN Without(cur, other)
         ELSE Without(cur, polygon)
    ELSE IF policy = "merge"
    THEN Append(Without(Without(cur, polygon), other),
                UnionEnvelope(polygon, other))
    ELSE cur

\* the inner loop over snap from position j on; cur is gdf
RECURSIVE Test5Inner(_, _, _, _, _, _)
Test5Inner(polygon, snap, j, cur, thr, policy) ==
    IF j > Len(snap) THEN [gdf |-> cur, error |-> "none"]
    ELSE IF polygon = snap[j]
    THEN Test5Inner(polygon, snap, j + 1, cur, thr, policy)
    ELSE IF UnionArea(polygon, snap[j]) = 0
    THEN [gdf |-> cur, error |-> "ZeroDivisionError"]
    ELSE IF RatioExceeds(InterArea(polygon, snap[j]),
                         UnionArea(polygon, snap[j]), thr)
    THEN Test5Inner(polygon, snap, j + 1,
                    Resolve(cur, polygon, snap[j], policy), thr, policy)
    ELSE Test5Inner(polygon, snap, j + 1, cur, thr, policy)

\* the outer loop over the geometries given, from position k on
RECURSIVE Test5Outer(_, _, _, _, _)
Test5Outer(given, k, cur, thr, policy) ==
    IF k > Len(given) THEN [gdf |-> cur, error |-> "none"]
    ELSE IF ~IsPolygonal(given[k]) THEN [gdf |-> cur, error |-> "ValueError"]
    ELSE LET r == Test5Inner(given[k], cur, 1, cur, thr, policy)
         IN  IF r.error # "none" THEN r
             ELSE Test5Outer(given, k + 1, r.gdf, thr, policy)

Test5_clean_overlapping_bboxes(g, thr, policy) ==
    LET r == Test5Outer(g, 1, g, thr, policy)
    IN  [NoScan EXCEPT !.error = r.error]
            @@ [result |-> IF r.error = "none" THEN r.gdf ELSE <<>>,
                input |-> g]

\* thresholds: the default 0.3 and the script's OVERLAP_THRESHOLD 0.05
Test5Thresholds == {<<3, 10>>, <<1, 20>>}

InitTest5 ==
    /\ gdf \in Frames(Footprints, MaxLen)
    /\ threshold \in Test5Thresholds
    /\ what_to_do_on_overlap \in {"remove_smaller", "merge"}
    /\ max_cleaning_iterations = 0
    /\ i = 0
    /\ frames = <<>>
    /\ trace = <<gdf>>
    /\ last = NoCall
    /\ pc = "ready"

\* gdf = clean_overlapping_bboxes(gdf, threshold, what_to_do_on_overlap)
CallTest5Clean ==
    /\ pc = "ready"
    /\ Len(trace) <= MaxCalls
    /\ LET r == Test5_clean_overlapping_bboxes(gdf, threshold,
                                               what_to_do_on_overlap)
       IN  /\ last' = r
           /\ IF r.error = "none"
              THEN /\ gdf' = r.result
                   /\ trace' = Append(trace, r.result)
                   /\ pc' = "ready"
              ELSE /\ gdf' = gdf
                   /\ trace' = trace
                   /\ pc' = "raised"
    /\ UNCHANGED <<threshold, what_to_do_on_overlap, max_cleaning_iterations,
                   i, frames>>

NextTest5 == CallTest5Clean

SpecTest5 == InitTest5 /\ [][NextTest5]_vars

\* A (earlier) and B (later), two different polygons of positive area whose
\* IoU exceeds the threshold, are the whole input
OverlappingPair(S, thr) ==
    /\ Len(S) = 2
    /\ S[1] # S[2]
    /\ \A k \in 1 .. 2 : IsPolygonal(S[k]) /\ Area(S[k]) > 0
    /\ RatioExceeds(InterArea(S[1], S[2]), UnionArea(S[1], S[2]), thr)

\* C9: under remove_smaller, of A and B overlapping above the threshold the
\* pass keeps the one of larger area and drops the other; when the areas are
\* equal it keeps A.
C9_RemoveSmallerKeepsLarger ==
    (/\ what_to_do_on_overlap = "remove_smaller"
     /\ OverlappingPair(trace[1], threshold)
     /\ Len(trace) >= 2)
        => trace[2] = IF Area(trace[1][1]) >= Area(trace[1][2])
                      THEN <<trace[1][1]>>
                      ELSE <<trace[1][2]>>

\* the part of C9 the code does satisfy: areas that differ
C9_StrictlyLargerKept ==
    (/\ what_to_do_on_overlap = "remove_smaller"
     /\ OverlappingPair(trace[1], threshold)
     /\ Area(trace[1][1]) # Area(trace[1][2])
     /\ Len(trace) >= 2)
        => trace[2] = IF Area(trace[1][1]) > Area(trace[1][2])
                      THEN <<trace[1][1]>>
                      ELSE <<trace[1][2]>>

\* a unit square: a polygon one wide and one high
UnitSquare(g) ==
    g.kind = "Polygon" /\ g.maxx = g.minx + 1 /\ g.maxy = g.miny + 1

\* C11 (Scenario A): two identical unit squares at the same place, threshold
\* 0.3, policy merge, IoU scoring: one pass yields exactly one footprint, the
\* envelope of the square.
C11_ScenarioA ==
    (/\ what_to_do_on_overlap = "merge"
     /\ threshold = <<3, 10>>
     /\ Len(trace[1]) = 2
     /\ UnitSquare(trace[1][1])
     /\ trace[1][2] = trace[1][1]
     /\ Len(trace) >= 2)
        => trace[2] = <<UnionEnvelope(trace[1][1], trace[1][2])>>

(***************************************************************************)
(* Claims about the order of a pass, checked under Spec.                   *)
(***************************************************************************)
\* the score max(inter / area(A), inter / area(B)) is strictly greater than
\* the threshold <<num, den>>
ScoreAbove(ga, gb, thr) ==
    LET inter == InterArea(ga, gb)
    IN  \/ inter * thr[2] > thr[1] * Area(ga)
        \/ inter * thr[2] > thr[1] * Area(gb)

\* the score equals the threshold
ScoreEquals(ga, gb, thr) ==
    LET inter == InterArea(ga, gb)
    IN  /\ ~ScoreAbove(ga, gb, thr)
        /\ \/ inter * thr[2] = thr[1] * Area(ga)
           \/ inter * thr[2] = thr[1] * Area(gb)

\* the footprints resolved before the n-th pair of the last pass
ConsumedBeforePair(n) ==
    UNION {{last.pairs[m][1], last.pairs[m][2]} : m \in 1 .. n - 1}

\* the footprints resolved when idx_a = a is scanned
ConsumedBeforeIndex(a) ==
    UNION {{last.pairs[m][1], last.pairs[m][2]} :
               m \in {m \in 1 .. Len(last.pairs) : last.pairs[m][1] < a}}

\* the footprints in a pair of the last pass
Paired == ConsumedBeforePair(Len(last.pairs) + 1)

\* b could be taken as the partner of a: later, of positive area, not in
\* consumed, with a score above the threshold
Qualifies(a, b, consumed) ==
    /\ b > a
    /\ b \notin consumed
    /\ Area(last.input[b]) > 0
    /\ ScoreAbove(last.input[a], last.input[b], threshold)

\* C12: the partner merged with A is the lowest-positioned later, unconsumed
\* footprint of positive area whose score is strictly greater than the
\* threshold (a score equal to the threshold does not merge, a later higher
\* score is not preferred), and an unconsumed A of positive area that has
\* such a partner is merged.
C12_FirstFoundStrict ==
    Returned =>
        /\ \A n \in 1 .. Len(last.pairs) :
               LET a == last.pairs[n][1]
                   t == last.pairs[n][2]
               IN  /\ a \notin ConsumedBeforePair(n)
                   /\ Area(last.input[a]) > 0
                   /\ Qualifies(a, t, ConsumedBeforePair(n))
                   /\ \A b \in a + 1 .. t - 1 :
                          ~Qualifies(a, b, ConsumedBeforePair(n))
        /\ \A a \in 1 .. Len(last.input) :
               (a \notin Paired /\ Area(last.input[a]) > 0) =>
                   \A b \in 1 .. Len(last.input) :
                       ~Qualifies(a, b, ConsumedBeforeIndex(a))

\* A is merged with the third footprint although the second one, unconsumed
\* and of positive area, scores exactly the threshold
C12_Witness ==
    /\ Returned
    /\ threshold[1] > 0
    /\ last.pairs = <<(<<1, 3>>)>>
    /\ Area(last.input[2]) > 0
    /\ ScoreEquals(last.input[1], last.input[2], threshold)

\* A is merged with the second footprint although the third one overlaps A
\* more
C12_WitnessLaterHigher ==
    /\ Returned
    /\ last.pairs = <<(<<1, 2>>)>>
    /\ Len(last.input) = 3
    /\ InterArea(last.input[1], last.input[3]) * Area(last.input[2])
           > InterArea(last.input[1], last.input[2]) * Area(last.input[3])
    /\ Area(last.input[3]) > 0
    /\ Area(last.input[3]) <= Area(last.input[1])
    /\ Area(last.input[2]) <= Area(last.input[1])

\* the footprints carried forward by the last pass: not in merged_indices
CarriedForward == (1 .. Len(last.input)) \ last.merged_indices

\* the number of pairs of the last pass that k is a parent of
ParentCount(k) ==
    Cardinality({n \in 1 .. Len(last.pairs) :
                     k = last.pairs[n][1] \/ k = last.pairs[n][2]})

\* C13: within one pass every footprint is resolved at most once: it is a
\* parent of at most one merged rectangle, it is never both carried forward
\* and merged, and a footprint scanned as A without a match (every A scanned
\* before the A of a pair) is not the B of a later pair.
C13_SingleResolution ==
    Returned =>
        /\ \A k \in 1 .. Len(last.input) : ParentCount(k) <= 1
        /\ \A n \in 1 .. Len(last.pairs) : last.pairs[n][1] # last.pairs[n][2]
        /\ \A k \in CarriedForward : ParentCount(k) = 0
        /\ Len(last.result) = Cardinality(CarriedForward) + Len(last.pairs)
        /\ \A n \in 1 .. Len(last.pairs) : last.pairs[n][2] > last.pairs[n][1]
        /\ \A n, m \in 1 .. Len(last.pairs) :
               n < m => last.pairs[n][1] < last.pairs[m][1]

\* a pass in which the third footprint qualifies as the partner of the first
\* and of the second one, and is merged with the first only
C13_Witness ==
    /\ Returned
    /\ Len(last.input) = 3
    /\ last.pairs = <<(<<1, 3>>)>>
    /\ Area(last.input[2]) > 0
    /\ ScoreAbove(last.input[2], last.input[3], threshold)
    /\ CarriedForward = {2}

\* the rows of g at the positions of keep, from position k on, in the order
\* of g
RECURSIVE RowsAt(_, _, _)
RowsAt(g, k, keep) ==
    IF k > Len(g) THEN <<>>
    ELSE IF k \in keep THEN <<g[k]>> \o RowsAt(g, k + 1, keep)
    ELSE RowsAt(g, k + 1, keep)

\* the envelopes of the pairs of the last pass, in the order of the pairs
MergedRectangles ==
    [n \in 1 .. Len(last.pairs) |->
        UnionEnvelope(last.input[last.pairs[n][1]],
                      last.input[last.pairs[n][2]])]

\* the pairs of the last pass are in increasing position of their parent A
PairsInScanOrder ==
    \A n, m \in 1 .. Len(last.pairs) :
        n < m => last.pairs[n][1] < last.pairs[m][1]

\* C14: the result of a pass is all the unmerged footprints (those in no
\* pair) in their original relative order, followed by the merged rectangles
\* in the order they were produced, that of their first parent A.
C14_CarriedThenMerged ==
    Returned =>
        /\ PairsInScanOrder
        /\ last.result =
               RowsAt(last.input, 1, (1 .. Len(last.input)) \ Paired)
                   \o MergedRectangles

\* C14 read on the footprints the code does carry forward, those outside
\* merged_indices (an unmerged footprint of area 0 is not among them)
C14_KeptThenMerged ==
    Returned =>
        /\ PairsInScanOrder
        /\ last.result =
               RowsAt(last.input, 1, CarriedForward) \o MergedRectangles

(***************************************************************************)
(* Claims about the frames of make_a_gif_for_coordinates, checked under    *)
(* SpecDriver.                                                             *)
(***************************************************************************)
\* the frames that show footprints: all but the satellite background
FootprintFrames == Len(frames) - 1

\* C15: the frame of pass k shows the working set pass k receives, with its
\* index and its count, and is delivered before pass k replaces the working
\* set; delivering a frame leaves the working set alone; after the last pass
\* exactly one final frame shows the final set: n passes deliver n + 1
\* frames of footprints, in pass order.
C15_FramesFollowPasses ==
    /\ frames[1].label = "Satellite"
    /\ \A k \in 1 .. PassCount :
           /\ frames[k + 1].label = "Iter"
           /\ frames[k + 1].iter = k - 1
           /\ frames[k + 1].drawn = trace[k]
           /\ frames[k + 1].n_bboxes = Len(trace[k])
    /\ PassCount >= 1 =>
           /\ last.input = frames[PassCount + 1].drawn
           /\ last.result = gdf
    /\ gdf = trace[Len(trace)]
    /\ pc = "loop" => FootprintFrames = PassCount
    /\ pc \in {"save", "done"} =>
           /\ FootprintFrames = PassCount + 1
           /\ frames[Len(frames)].label = "Final"
           /\ frames[Len(frames)].drawn = gdf
           /\ frames[Len(frames)].n_bboxes = Len(gdf)

\* a finished run of three passes, the first two of which shrank the set
C15_Witness ==
    /\ pc = "done"
    /\ PassCount = 3
    /\ Len(trace[1]) = 3
    /\ Len(trace[2]) = 2
    /\ Len(trace[3]) = 1
    /\ FootprintFrames = 4

(***************************************************************************)
(* Coverage, checked under Spec and under SpecDriver.                      *)
(***************************************************************************)
\* rectangle h contains rectangle g
Covers(h, g) ==
    /\ h.minx <= g.minx
    /\ h.miny <= g.miny
    /\ h.maxx >= g.maxx
    /\ h.maxy >= g.maxy

CoveredBy(g, S) == \E j \in 1 .. Len(S) : Covers(S[j], g)

\* C16: after any number of passes, every input rectangle of positive area
\* is contained in some rectangle of the current set; each envelope of the
\* last pass contains both of its parents, and a footprint the last pass
\* left unmerged is in its result with the same geometry.
C16_CoverageKept ==
    /\ \A k \in 1 .. Len(trace[1]) :
           Area(trace[1][k]) > 0 => CoveredBy(trace[1][k], gdf)
    /\ last.error = "none" =>
           /\ \A n \in 1 .. Len(last.pairs) :
                  /\ Covers(last.new_geometries[n],
                            last.input[last.pairs[n][1]])
                  /\ Covers(last.new_geometries[n],
                            last.input[last.pairs[n][2]])
                  /\ CoveredBy(last.new_geometries[n], last.result)
           /\ \A k \in CarriedForward :
                  \E j \in 1 .. Len(last.result) :
                      last.result[j] = last.input[k]

\* two passes on three rectangles of positive area, each pass merging a
\* pair, so that one rectangle is left that is none of the three inputs
C16_Witness ==
    /\ Len(trace) = 3
    /\ Len(trace[1]) = 3
    /\ \A k \in 1 .. 3 : IsPolygonal(trace[1][k]) /\ Area(trace[1][k]) > 0
    /\ Len(trace[2]) = 2
    /\ Len(gdf) = 1
    /\ gdf = trace[3]
    /\ \A k \in 1 .. 3 : gdf[1] # trace[1][k]

====
